---------------------------- MODULE Spec2Model ----------------------------
(***************************************************************************)
(* utmdash: CSV ingestion, type inference and the in-memory query engine   *)
(* of the dashboard (src/App.tsx).                                         *)
(*                                                                         *)
(* Strings are TLA+ strings (sequences of characters): Len, SubSeq and \o  *)
(* are the only primitives used on them.  A JavaScript number is an exact  *)
(* rational n/d in lowest terms; IEEE-754 rounding is not modelled.        *)
(* A cell of a table is a record [t, n, d, s]: t = "num" with value n/d,   *)
(* or t = "str" with the string s.                                         *)
(***************************************************************************)
EXTENDS Integers, Sequences, FiniteSets, TLC

VARIABLES
    csvText,     \* parseCSV: the CSV text handed to it
    parsed,      \* parseCSV: what it returned ("pending" before the call)
    token,       \* cleanAndParse: the raw field handed to it
    scalar,      \* cleanAndParse: what it returned ("pending" before the call)
    data,              \* Dashboard props: the table (line 215)
    filters,           \* Dashboard state (line 217): column -> accepted values
    searchTerm,        \* line 218
    manualInvestment,  \* line 219
    groupInvestments,  \* line 220: cluster key -> investment
    datePreset,        \* line 224
    customStartDate,   \* line 225
    customEndDate,     \* line 226
    now,               \* the instant new Date() returns while rendering
    tz,                \* the offset of local time from UTC, in minutes
    view,              \* what the last render computed (Pending before it)
    loading,           \* App state (line 16)
    sheetUrl,          \* line 19
    inflight,          \* the ingestions started and not yet settled
    done,              \* the ingestions settled so far, in order
    alerts,            \* the number of alert() calls so far (line 96)
    fetches,           \* the URLs handed to fetch() so far (line 91)
    insights,          \* line 17: the insight held, and the table it is about
    analyzing,         \* line 18
    analyses,          \* the tables of the AI calls not yet settled
    toggled            \* history: the (column, value) pairs toggled an odd
                       \* number of times since the filters were last empty

parserVars == <<csvText, parsed, token, scalar>>
queryVars == <<data, filters, searchTerm, manualInvestment, groupInvestments,
               datePreset, customStartDate, customEndDate, now, tz>>
aiVars == <<insights, analyzing, analyses>>
appVars == <<loading, sheetUrl, inflight, done, alerts, fetches, aiVars>>
vars == <<parserVars, queryVars, view, appVars, toggled>>

(***************************************************************************)
(* Bounds of the model.                                                    *)
(***************************************************************************)
MaxLen == 5        \* longest CSV text enumerated
MaxTokLen == 3     \* longest raw field enumerated (besides ExampleTokens)

(***************************************************************************)
(* Values.                                                                 *)
(***************************************************************************)
Num(n, d) == [t |-> "num", n |-> n, d |-> d, s |-> ""]
Str(s) == [t |-> "str", n |-> 0, d |-> 1, s |-> s]
IsNum(v) == v.t = "num"
NaN == [nan |-> TRUE, n |-> 0, d |-> 1]

Abs(x) == IF x < 0 THEN 0 - x ELSE x

RECURSIVE GCD(_, _)
GCD(a, b) == IF b = 0 THEN a ELSE GCD(b, a % b)

\* n/d with the common factor g taken out and the sign on the numerator
Reduced(n, d, g) ==
    [nan |-> FALSE,
     n |-> (IF d < 0 THEN 0 - 1 ELSE 1) * (n \div g),
     d |-> (IF d < 0 THEN 0 - 1 ELSE 1) * (d \div g)]

\* the rational n/d (d # 0) in lowest terms with a positive denominator
Rat(n, d) == Reduced(n, d, GCD(Abs(n), Abs(d)))

RECURSIVE Pow10(_)
Pow10(k) == IF k = 0 THEN 1 ELSE 10 * Pow10(k - 1)

(***************************************************************************)
(* String primitives of the JavaScript runtime, as the code uses them.     *)
(***************************************************************************)
Ch(s, i) == SubSeq(s, i, i)

Digits == {"0", "1", "2", "3", "4", "5", "6", "7", "8", "9"}
IsDigit(c) == c \in Digits
DigitVal(c) ==
    CASE c = "0" -> 0 [] c = "1" -> 1 [] c = "2" -> 2 [] c = "3" -> 3
      [] c = "4" -> 4 [] c = "5" -> 5 [] c = "6" -> 6 [] c = "7" -> 7
      [] c = "8" -> 8 [] c = "9" -> 9

\* the characters String.prototype.trim and /\s/ treat as white space
Spaces == {" ", "\t", "\n", "\r", "\f"}
IsSpace(c) == c \in Spaces

RECURSIVE FirstNonSpace(_, _)
FirstNonSpace(s, i) ==
    IF i > Len(s) THEN i
    ELSE IF IsSpace(Ch(s, i)) THEN FirstNonSpace(s, i + 1) ELSE i

RECURSIVE LastNonSpace(_, _)
LastNonSpace(s, i) ==
    IF i < 1 THEN 0
    ELSE IF IsSpace(Ch(s, i)) THEN LastNonSpace(s, i - 1) ELSE i

\* s[a..b], empty when a > b
Between(s, a, b) == IF a > b THEN "" ELSE SubSeq(s, a, b)

\* String.prototype.trim
trim(s) == Between(s, FirstNonSpace(s, 1), LastNonSpace(s, Len(s)))

\* the least member of a set of positions, 0 for the empty set
LeastOrZero(at) ==
    IF at = {} THEN 0 ELSE CHOOSE i \in at : \A j \in at : i <= j

\* String.prototype.indexOf, 1-based; 0 when sub does not occur
indexOf(s, sub) ==
    LeastOrZero({i \in 1..(Len(s) - Len(sub) + 1) :
                    SubSeq(s, i, i + Len(sub) - 1) = sub})

\* String.prototype.includes
includes(s, sub) == indexOf(s, sub) # 0

\* s with the n characters from position i replaced by rep (i = 0: s)
ReplaceAt(s, i, n, rep) ==
    IF i = 0 THEN s
    ELSE SubSeq(s, 1, i - 1) \o rep \o SubSeq(s, i + n, Len(s))

\* String.prototype.replace with a string pattern: the first occurrence only
replaceFirst(s, sub, rep) == ReplaceAt(s, indexOf(s, sub), Len(sub), rep)

\* s without the characters of the set drop (a /[...]/g replace by '')
RECURSIVE RemoveChars(_, _)
RemoveChars(s, drop) ==
    IF s = "" THEN ""
    ELSE LET c == Ch(s, 1)
             rest == RemoveChars(SubSeq(s, 2, Len(s)), drop)
         IN  IF c \in drop THEN rest ELSE c \o rest

StripLeadingQuote(s) ==
    IF Len(s) > 0 /\ Ch(s, 1) = "\"" THEN SubSeq(s, 2, Len(s)) ELSE s

StripTrailingQuote(s) ==
    IF Len(s) > 0 /\ Ch(s, Len(s)) = "\"" THEN SubSeq(s, 1, Len(s) - 1) ELSE s

\* .replace(/^"|"$/g, '')
StripQuotes(s) == StripTrailingQuote(StripLeadingQuote(s))

AllDigits(s) == \A i \in 1..Len(s) : IsDigit(Ch(s, i))

RECURSIVE DigitsVal(_)
DigitsVal(s) ==
    IF s = "" THEN 0
    ELSE 10 * DigitsVal(SubSeq(s, 1, Len(s) - 1)) + DigitVal(Ch(s, Len(s)))

(***************************************************************************)
(* Number(string): ECMAScript StringToNumber.  White space is trimmed; the *)
(* empty string is 0; otherwise the text must be a StrDecimalLiteral.  The *)
(* forms with letters (exponent, Infinity, 0x/0o/0b) are not modelled: the *)
(* texts enumerated hold none of the letters e, E, I, x, o, b after a      *)
(* digit.                                                                  *)
(***************************************************************************)
\* the value of the digits ip, a point and the digits fp (either may be
\* empty, not both), negated when neg
DecimalValue(neg, ip, fp) ==
    IF AllDigits(ip) /\ AllDigits(fp) /\ Len(ip) + Len(fp) > 0
    THEN Rat((IF neg THEN 0 - 1 ELSE 1)
                 * (DigitsVal(ip) * Pow10(Len(fp)) + DigitsVal(fp)),
             Pow10(Len(fp)))
    ELSE NaN

\* body split at its first point, at position dot (0: no point)
DecimalLiteralAt(neg, body, dot) ==
    IF dot = 0 THEN DecimalValue(neg, body, "")
    ELSE DecimalValue(neg, SubSeq(body, 1, dot - 1),
                      SubSeq(body, dot + 1, Len(body)))

DecimalLiteral(neg, body) == DecimalLiteralAt(neg, body, indexOf(body, "."))

StringToNumber(s) ==
    IF s = "" THEN Rat(0, 1)
    ELSE IF Ch(s, 1) \in {"-", "+"}
         THEN DecimalLiteral(Ch(s, 1) = "-", SubSeq(s, 2, Len(s)))
         ELSE DecimalLiteral(FALSE, s)

Number(str) == StringToNumber(trim(str))

\* [\d\.]+,[\d]+ with the comma at position k of body
CommaFormAt(body, k) ==
    /\ k > 1
    /\ \A i \in 1..(k - 1) : IsDigit(Ch(body, i)) \/ Ch(body, i) = "."
    /\ k < Len(body)
    /\ \A i \in (k + 1)..Len(body) : IsDigit(Ch(body, i))

CommaForm(body) == CommaFormAt(body, indexOf(body, ","))

\* /^-?[\d\.]+,[\d]+$/.test(s)
DecimalCommaPattern(s) ==
    IF Len(s) > 0 /\ Ch(s, 1) = "-" THEN CommaForm(SubSeq(s, 2, Len(s)))
    ELSE CommaForm(s)

(***************************************************************************)
(* cleanAndParse (src/App.tsx 28-48).                                      *)
(***************************************************************************)
\* lines 39-43: the separators
NormalizeSeparators(c) ==
    IF includes(c, ",") /\ includes(c, ".")
    THEN replaceFirst(RemoveChars(c, {"."}), ",", ".")
    ELSE IF includes(c, ",") THEN replaceFirst(c, ",", ".")
    ELSE c

\* lines 34-43: the markers, the white space and the separators
NormalizeLocale(cleaned) ==
    NormalizeSeparators(
        RemoveChars(replaceFirst(replaceFirst(cleaned, "R$", ""), "%", ""),
                    Spaces))

\* lines 33-44
NormalizeIfLocale(cleaned) ==
    IF includes(cleaned, "R$") \/ includes(cleaned, "%")
       \/ DecimalCommaPattern(cleaned)
    THEN NormalizeLocale(cleaned)
    ELSE cleaned

\* lines 31-44: the string handed to Number
CleanedOf(val) == NormalizeIfLocale(StripQuotes(trim(val)))

\* line 47
NumberOrText(num, cleaned) ==
    IF ~num.nan /\ cleaned # "" THEN Num(num.n, num.d) ELSE Str(cleaned)

\* lines 46-47
ParseCleaned(cleaned) == NumberOrText(Number(cleaned), cleaned)

cleanAndParse(val) ==
    IF trim(val) = "" THEN Str("") ELSE ParseCleaned(CleanedOf(val))

(***************************************************************************)
(* parseCSV (src/App.tsx 22-66).                                           *)
(***************************************************************************)
\* the k-th smallest member of the set of positions P; 0 for k = 0
Nth(P, k) ==
    IF k = 0 THEN 0
    ELSE CHOOSE x \in P : Cardinality({y \in P : y < x}) = k - 1

\* the end of the piece that starts at first and runs up to the line feed at
\* f: before the line feed, and before the carriage return in front of it
LineEnd(s, first, f) ==
    IF f - 1 >= first /\ Ch(s, f - 1) = "\r" THEN f - 2 ELSE f - 1

\* piece k of n + 1, the line feeds being at the positions feeds
LineAt(s, feeds, n, k) ==
    SubSeq(s, Nth(feeds, k - 1) + 1,
           IF k = n + 1 THEN Len(s)
           ELSE LineEnd(s, Nth(feeds, k - 1) + 1, Nth(feeds, k)))

LinesAt(s, feeds, n) == [k \in 1..(n + 1) |-> LineAt(s, feeds, n, k)]

LinesBetween(s, feeds) == LinesAt(s, feeds, Cardinality(feeds))

\* csvText.split(/\r?\n/)
SplitLines(s) == LinesBetween(s, {i \in 1..Len(s) : Ch(s, i) = "\n"})

NonBlank(line) == trim(line) # ""

LinesKeepingBlank(text) == SplitLines(text)

\* line 23
LinesOf(text) == SelectSeq(SplitLines(text), NonBlank)

\* the number of double quotes in s[i..]
QuotesFrom(s, i) == Cardinality({j \in i..Len(s) : Ch(s, j) = "\""})

\* line.split(','): every comma separates
PlainCommas(s) == {i \in 1..Len(s) : Ch(s, i) = ","}

\* line.split(/,(?=(?:(?:[^"]*"){2})*[^"]*$)/): a comma separates when an
\* even number of double quotes follows it
UnquotedCommas(s) ==
    {i \in 1..Len(s) : Ch(s, i) = "," /\ QuotesFrom(s, i + 1) % 2 = 0}

\* piece k of n + 1, the separators being at the positions seps
PieceAt(s, seps, n, k) ==
    SubSeq(s, Nth(seps, k - 1) + 1,
           IF k = n + 1 THEN Len(s) ELSE Nth(seps, k) - 1)

PiecesAt(s, seps, n) == [k \in 1..(n + 1) |-> PieceAt(s, seps, n, k)]

\* String.prototype.split at the one-character separators at seps
SplitAt(s, seps) == PiecesAt(s, seps, Cardinality(seps))

Range(q) == {q[i] : i \in 1..Len(q)}

HeaderName(h) == StripQuotes(trim(h))

HeaderNames(fields) == [i \in 1..Len(fields) |-> HeaderName(fields[i])]

\* line 26
HeadersOf(line) == HeaderNames(SplitAt(line, PlainCommas(line)))

TrimAll(fields) == [i \in 1..Len(fields) |-> trim(fields[i])]

\* line 51
ValuesOf(line) == TrimAll(SplitAt(line, UnquotedCommas(line)))

\* values[index] || ''
ValueAt(values, index) == IF index <= Len(values) THEN values[index] ELSE ""

\* lines 52-56: an object keyed by header name; a later header of the same
\* name overwrites the entry of an earlier one
LastIndexOf(headers, h) ==
    CHOOSE i \in 1..Len(headers) :
        headers[i] = h /\ \A j \in (i + 1)..Len(headers) : headers[j] # h

\* lines 52-56
RowFrom(headers, values) ==
    [h \in Range(headers) |->
        cleanAndParse(ValueAt(values, LastIndexOf(headers, h)))]

\* lines 50-57
RowOf(headers, line) == RowFrom(headers, ValuesOf(line))

\* lines 59-63
TypeOf(rows, header) ==
    IF \E i \in 1..Len(rows) :
          rows[i][header] # Str("") /\ IsNum(rows[i][header])
    THEN "number" ELSE "string"

NullTable == [null |-> TRUE, headers |-> <<>>, rows |-> <<>>,
              types |-> <<>>]

\* line 65
TableOf(headers, rows) ==
    [null |-> FALSE, headers |-> headers, rows |-> rows,
     types |-> [h \in Range(headers) |-> TypeOf(rows, h)]]

\* lines 50-57
RowsOf(headers, lines) ==
    [i \in 1..(Len(lines) - 1) |-> RowOf(headers, lines[i + 1])]

\* lines 24-65, on the non-blank lines
TableOfLines(lines) ==
    IF Len(lines) = 0 THEN NullTable
    ELSE TableOf(HeadersOf(lines[1]), RowsOf(HeadersOf(lines[1]), lines))

parseCSV(text) == TableOfLines(LinesOf(text))

(***************************************************************************)
(* Runtime conversions used by the dashboard (src/App.tsx 215-450).        *)
(***************************************************************************)
Undef == [t |-> "undef", n |-> 0, d |-> 1, s |-> ""]

\* a rational in lowest terms, as a record [n, d]
AsQ(r) == [n |-> r.n, d |-> r.d]
Q(n, d) == AsQ(Rat(n, d))
QZero == Q(0, 1)
QAdd(a, b) == Q(a.n * b.d + b.n * a.d, a.d * b.d)
QSub(a, b) == Q(a.n * b.d - b.n * a.d, a.d * b.d)
QMul(a, b) == Q(a.n * b.n, a.d * b.d)
QDiv(a, b) == Q(a.n * b.d, a.d * b.n)
QLess(a, b) == a.n * b.d < b.n * a.d

\* the truthiness of a cell or of an optional string
Truthy(v) ==
    CASE v.t = "undef" -> FALSE
      [] v.t = "str" -> v.s # ""
      [] v.t = "num" -> v.n # 0

\* row[key]
Get(row, key) == IF key \in DOMAIN row THEN row[key] ELSE Undef

RECURSIVE NatToString(_)
NatToString(k) ==
    IF k < 10 THEN Ch("0123456789", k + 1)
    ELSE NatToString(k \div 10) \o Ch("0123456789", (k % 10) + 1)

\* the decimal digits of rem/d after the point (d divides a power of ten)
RECURSIVE FractionDigits(_, _)
FractionDigits(rem, d) ==
    IF rem = 0 THEN ""
    ELSE NatToString((rem * 10) \div d) \o FractionDigits((rem * 10) % d, d)

\* the decimal text of the magnitude m/d with the fraction digits frac
DecimalText(neg, m, d, frac) ==
    (IF neg THEN "-" ELSE "") \o NatToString(m \div d)
        \o (IF frac = "" THEN "" ELSE "." \o frac)

MagnitudeText(neg, m, d) == DecimalText(neg, m, d, FractionDigits(m % d, d))

\* Number.prototype.toString of n/d
NumToString(n, d) == MagnitudeText(n < 0, Abs(n), d)

\* String(v)
String(v) ==
    CASE v.t = "undef" -> "undefined"
      [] v.t = "str" -> v.s
      [] v.t = "num" -> NumToString(v.n, v.d)

\* num || 0
OrZero(num) == IF num.nan THEN QZero ELSE Q(num.n, num.d)

\* Number(v) || 0
NumberOrZero(v) ==
    CASE v.t = "undef" -> QZero
      [] v.t = "num" -> Q(v.n, v.d)
      [] v.t = "str" -> OrZero(Number(v.s))

UpperCase == "ABCDEFGHIJKLMNOPQRSTUVWXYZ"
LowerCase == "abcdefghijklmnopqrstuvwxyz"

LowerOf ==
    [c \in {Ch(UpperCase, i) : i \in 1..Len(UpperCase)} |->
        Ch(LowerCase, CHOOSE i \in 1..Len(UpperCase) : Ch(UpperCase, i) = c)]

LowerChar(c) == IF c \in DOMAIN LowerOf THEN LowerOf[c] ELSE c

\* String.prototype.toLowerCase (ASCII letters)
RECURSIVE toLowerCase(_)
toLowerCase(s) ==
    IF s = "" THEN ""
    ELSE LowerChar(Ch(s, 1)) \o toLowerCase(SubSeq(s, 2, Len(s)))

\* s up to position i, all of s when i = 0
UpTo(s, i) == IF i = 0 THEN s ELSE SubSeq(s, 1, i - 1)

\* s.split(sep)[0] for a one-character sep
BeforeFirst(s, sep) == UpTo(s, indexOf(s, sep))

CharPositions(s, c) == {i \in 1..Len(s) : Ch(s, i) = c}

Min(S) == CHOOSE x \in S : \A y \in S : x <= y

(***************************************************************************)
(* Dates.  An instant is a whole number of minutes since 1970-01-01T00:00Z *)
(* (every instant of the model is a whole minute); local time is UTC + tz  *)
(* minutes.  A Date is null (no object), Invalid Date, or an instant.      *)
(***************************************************************************)
MinutesPerDay == 24 * 60

NullDate == [null |-> TRUE, valid |-> FALSE, t |-> 0]
InvalidDate == [null |-> FALSE, valid |-> FALSE, t |-> 0]
DateAt(t) == [null |-> FALSE, valid |-> TRUE, t |-> t]

\* the day number of the civil date y-m-d (m in 1..12), 1970-01-01 being 0
DaysFromCivil(y, m, d) ==
    LET yy == IF m <= 2 THEN y - 1 ELSE y
        era == yy \div 400
        yoe == yy - era * 400
        mp == IF m > 2 THEN m - 3 ELSE m + 9
        doy == (153 * mp + 2) \div 5 + d - 1
        doe == yoe * 365 + yoe \div 4 - yoe \div 100 + doy
    IN  era * 146097 + doe - 719468

\* ECMAScript MakeDay: month0 counts from 0 and overflows into the year,
\* date overflows into the following days
MakeDay(year, month0, date) ==
    DaysFromCivil(year + month0 \div 12, (month0 % 12) + 1, 1) + date - 1

\* ToIntegerOrInfinity of a finite number
Trunc(num) ==
    IF num.n >= 0 THEN num.n \div num.d ELSE 0 - ((0 - num.n) \div num.d)

\* a year 0..99 is 1900 + year
FullYear(y) == IF 0 <= y /\ y <= 99 THEN 1900 + y ELSE y

\* new Date(year, month0, date): local midnight
NewLocalDate(year, month0, date, zone) ==
    IF year.nan \/ month0.nan \/ date.nan THEN InvalidDate
    ELSE DateAt(MakeDay(FullYear(Trunc(year)), Trunc(month0), Trunc(date))
                    * MinutesPerDay - zone)

\* UTC midnight of the civil date y-m-d when it is one
UtcDate(shaped, y, m, d) ==
    IF shaped /\ m \in 1..12 /\ d \in 1..31
    THEN DateAt(DaysFromCivil(y, m, d) * MinutesPerDay)
    ELSE InvalidDate

IsoYear(s) == Len(s) >= 4 /\ AllDigits(SubSeq(s, 1, 4))
IsoMonth(s) == Len(s) >= 7 /\ Ch(s, 5) = "-" /\ AllDigits(SubSeq(s, 6, 7))
IsoDay(s) == Len(s) = 10 /\ Ch(s, 8) = "-" /\ AllDigits(SubSeq(s, 9, 10))

\* new Date(string): the ISO date-only forms YYYY, YYYY-MM and YYYY-MM-DD
\* are UTC midnight; no other form is modelled (the texts enumerated hold
\* none that an engine's legacy parser accepts)
NewDateFromString(s) ==
    UtcDate(\/ (Len(s) = 4 /\ IsoYear(s))
            \/ (Len(s) = 7 /\ IsoYear(s) /\ IsoMonth(s))
            \/ (Len(s) = 10 /\ IsoYear(s) /\ IsoMonth(s) /\ IsoDay(s)),
            DigitsVal(SubSeq(s, 1, 4)),
            IF Len(s) >= 7 THEN DigitsVal(SubSeq(s, 6, 7)) ELSE 1,
            IF Len(s) = 10 THEN DigitsVal(SubSeq(s, 9, 10)) ELSE 1)

\* the local calendar day of an instant
LocalDay(t, zone) == (t + zone) \div MinutesPerDay

\* a.toDateString() === b.toDateString()
SameDateString(a, b, zone) ==
    IF a.valid /\ b.valid THEN LocalDay(a.t, zone) = LocalDay(b.t, zone)
    ELSE ~a.valid /\ ~b.valid

\* a < b and a > b on Date objects (false when either is Invalid Date)
DateLT(a, b) == a.valid /\ b.valid /\ a.t < b.t
DateGT(a, b) == a.valid /\ b.valid /\ a.t > b.t

\* date.setHours(23, 59, 59, 999): the last minute of the local day
EndOfLocalDay(a, zone) ==
    IF a.valid
    THEN DateAt(LocalDay(a.t, zone) * MinutesPerDay + (MinutesPerDay - 1) - zone)
    ELSE a

\* Number(parts[1]) - 1
MinusOne(m) == IF m.nan THEN m ELSE Rat(m.n - m.d, m.d)

\* line 269
ValidOrNull(isoDate) == IF isoDate.valid THEN isoDate ELSE NullDate

\* lines 265-269
DateOfParts(parts, dateStr, zone) ==
    IF Len(parts) = 3
    THEN NewLocalDate(Number(parts[3]), MinusOne(Number(parts[2])),
                      Number(parts[1]), zone)
    ELSE ValidOrNull(NewDateFromString(dateStr))

\* line 264
SlashParts(first) == SplitAt(first, CharPositions(first, "/"))

\* parseBrazilianDate (lines 262-270)
parseBrazilianDate(dateStr, zone) ==
    IF ~Truthy(dateStr) \/ dateStr.t # "str" THEN NullDate
    ELSE DateOfParts(SlashParts(BeforeFirst(dateStr.s, " ")), dateStr.s, zone)

(***************************************************************************)
(* Dashboard (src/App.tsx 215-450, 526-590): the derived values of one     *)
(* render, as functions of the props and the state.                        *)
(***************************************************************************)
\* rowsWithIndex (lines 228-230): { ...row, _id: index }
rowsWithIndex ==
    [i \in 1..Len(data.rows) |->
        [k \in DOMAIN data.rows[i] \cup {"_id"} |->
            IF k = "_id" THEN Num(i - 1, 1) ELSE data.rows[i][k]]]

\* h.toLowerCase() === k.toLowerCase() || h.toLowerCase().includes(...)
LowerMatch(h, k) == h = k \/ includes(h, k)

HeaderMatches(h, keys) ==
    \E i \in 1..Len(keys) : LowerMatch(toLowerCase(h), toLowerCase(keys[i]))

\* data.headers.find(...): the first match, undefined when there is none
FirstHeaderAt(m) == IF m = {} THEN Undef ELSE Str(data.headers[Min(m)])

\* findHeader (lines 232-235): an optional string (Str(name) or Undef)
findHeader(keys, indexHint) ==
    IF indexHint + 1 <= Len(data.headers) /\ data.headers[indexHint + 1] # ""
    THEN Str(data.headers[indexHint + 1])
    ELSE FirstHeaderAt({i \in 1..Len(data.headers) :
                           HeaderMatches(data.headers[i], keys)})

\* lines 237-242
colData == findHeader(<<"data venda", "data">>, 1)
colProduto == findHeader(<<"produto">>, 8)
colFaturamento == findHeader(<<"valor da venda", "valor">>, 12)
colSource == findHeader(<<"utm_source", "source">>, 29)
colCampaign == findHeader(<<"utm_campaign", "campanha">>, 31)
colContent == findHeader(<<"utm_content", "conteúdo">>, 33)

\* col || ''
OrEmpty(col) == IF Truthy(col) THEN col.s ELSE ""

\* line 244
categoricalFilterCols ==
    {c.s : c \in {x \in {colProduto, colSource, colCampaign, colContent} :
                     Truthy(x)}}

\* lines 248-254, s being the value in lower case
SourceName(val, s) ==
    IF includes(s, "tiktok") THEN "tiktok"
    ELSE IF includes(s, "facebook") \/ includes(s, "fb") THEN "facebook"
    ELSE IF includes(s, "instagram") \/ includes(s, "ig") THEN "instagram"
    ELSE IF includes(s, "google") THEN "google"
    ELSE IF includes(s, "kwai") THEN "kwai"
    ELSE val

\* cleanUTMSource (lines 246-255), on a string
cleanUTMSource(val) ==
    IF val = "" THEN "organic" ELSE SourceName(val, toLowerCase(val))

\* cleanUTMCampaign without the split at '|'
WholeCampaign(val) == IF val = "" THEN "n/a" ELSE trim(val)

\* cleanUTMCampaign (lines 257-260), on a string
cleanUTMCampaign(val) ==
    IF val = "" THEN "n/a" ELSE trim(BeforeFirst(val, "|"))

\* String(v ?? 'N/A')
StringOrNA(v) == IF v.t = "undef" THEN "N/A" ELSE String(v)

\* if (col === colSource) rowVal = cleanUTMSource(rowVal)
CleanIfSource(col, rowVal) ==
    IF Str(col) = colSource THEN cleanUTMSource(rowVal) ELSE rowVal

\* if (col === colCampaign) rowVal = cleanUTMCampaign(rowVal)
CleanIfCampaign(col, rowVal) ==
    IF Str(col) = colCampaign THEN cleanUTMCampaign(rowVal) ELSE rowVal

\* lines 335-337: the value of a row the filter compares
FilterValue(row, col) ==
    CleanIfCampaign(col, CleanIfSource(col, StringOrNA(Get(row, col))))

\* lines 277-279
CleanForList(col, rawVal) ==
    IF Str(col) = colSource THEN cleanUTMSource(rawVal)
    ELSE IF Str(col) = colCampaign THEN cleanUTMCampaign(rawVal)
    ELSE rawVal

\* lines 276-279: the value of a row the list of selectable values holds
UniqueValue(r, col) == CleanForList(col, StringOrNA(Get(r, col)))

\* uniqueValuesMap (lines 272-284), as the set of each column's values (the
\* order .sort() gives them is not represented)
uniqueValuesMap ==
    [col \in categoricalFilterCols |->
        {UniqueValue(data.rows[i], col) : i \in 1..Len(data.rows)} \ {""}]

\* lines 310-330: FALSE where the callback returns false
InWindow(rowDate) ==
    IF rowDate.null THEN FALSE
    ELSE IF datePreset = "today"
         THEN SameDateString(rowDate, DateAt(now), tz)
    ELSE IF datePreset = "7days"
         THEN ~DateLT(rowDate, DateAt(now - 7 * MinutesPerDay))
    ELSE IF datePreset = "15days"
         THEN ~DateLT(rowDate, DateAt(now - 15 * MinutesPerDay))
    ELSE IF datePreset = "30days"
         THEN ~DateLT(rowDate, DateAt(now - 30 * MinutesPerDay))
    ELSE IF datePreset = "custom" /\ customStartDate # ""
            /\ customEndDate # ""
         THEN ~(\/ DateLT(rowDate, NewDateFromString(customStartDate))
                \/ DateGT(rowDate,
                          EndOfLocalDay(NewDateFromString(customEndDate), tz)))
    ELSE TRUE

\* lines 307-331: FALSE where the callback returns false
DateRestriction(row) ==
    IF Truthy(colData) /\ datePreset # "all"
    THEN InWindow(parseBrazilianDate(Get(row, colData.s), tz))
    ELSE TRUE

\* lines 332-339
MatchesIn(accepted, row) ==
    \A col \in DOMAIN accepted :
        \/ Len(accepted[col]) = 0
        \/ FilterValue(row, col) \in Range(accepted[col])

matchesFilters(row) == MatchesIn(filters, row)

\* lines 340-342
matchesSearch(row) ==
    \/ searchTerm = ""
    \/ \E i \in 1..Len(data.headers) :
          includes(toLowerCase(String(Get(row, data.headers[i]))),
                   toLowerCase(searchTerm))

\* the callback of rowsWithIndex.filter (lines 306-344)
KeepRow(row) ==
    IF ~DateRestriction(row) THEN FALSE
    ELSE matchesFilters(row) /\ matchesSearch(row)

\* filteredRows (lines 303-345)
filteredRows == SelectSeq(rowsWithIndex, KeepRow)

(***************************************************************************)
(* A JavaScript object used as a dictionary is the sequence of its         *)
(* [k, v] entries in insertion order.  Object.keys/values/entries list the *)
(* array-index keys first, in ascending numeric order, then the others in  *)
(* insertion order.                                                        *)
(***************************************************************************)
IsArrayIndex(k) ==
    /\ Len(k) \in 1..9
    /\ AllDigits(k)
    /\ (Ch(k, 1) # "0" \/ Len(k) = 1)

KeyIndex(obj, k) == LeastOrZero({i \in 1..Len(obj) : obj[i].k = k})

\* entry i comes before entry j in Object.entries(obj)
EntryBefore(obj, i, j) ==
    IF IsArrayIndex(obj[i].k) /\ IsArrayIndex(obj[j].k)
    THEN DigitsVal(obj[i].k) < DigitsVal(obj[j].k)
    ELSE IF IsArrayIndex(obj[i].k) # IsArrayIndex(obj[j].k)
         THEN IsArrayIndex(obj[i].k)
         ELSE i < j

\* Object.entries(obj)
ObjectEntries(obj) ==
    [p \in 1..Len(obj) |->
        obj[CHOOSE i \in 1..Len(obj) :
               Cardinality({j \in 1..Len(obj) : EntryBefore(obj, j, i)}) = p - 1]]

IncrementAt(obj, i, k) ==
    IF i = 0 THEN Append(obj, [k |-> k, v |-> 1])
    ELSE [obj EXCEPT ![i].v = @ + 1]

\* counts[k] = (counts[k] || 0) + 1
Increment(obj, k) == IncrementAt(obj, KeyIndex(obj, k), k)

\* Array.prototype.sort((a, b) => b.f - a.f): stable, descending by the
\* weights w, w[i] being the f of q[i]
SortDescending(q, w) ==
    [p \in 1..Len(q) |->
        q[CHOOSE i \in 1..Len(q) :
             Cardinality({j \in 1..Len(q) :
                 \/ w[j] > w[i]
                 \/ (w[j] = w[i] /\ j < i)}) = p - 1]]

(***************************************************************************)
(* groupedPerformance (lines 348-391).                                     *)
(***************************************************************************)
\* String(v || '')
StringOrEmpty(v) == IF Truthy(v) THEN String(v) ELSE ""

\* String(v || 'N/A')
StringOrNAIfFalsy(v) == IF Truthy(v) THEN String(v) ELSE "N/A"

\* lines 351-353
GroupSource(row) ==
    cleanUTMSource(StringOrEmpty(Get(row, OrEmpty(colSource))))
GroupCampaign(row) ==
    cleanUTMCampaign(StringOrEmpty(Get(row, OrEmpty(colCampaign))))
GroupKey(row) == GroupSource(row) \o "|" \o GroupCampaign(row)

\* String(row[col || ''] || 'N/A')
OrNA(row, col) == StringOrNAIfFalsy(Get(row, OrEmpty(col)))

\* line 357
RowDateStr(row) == BeforeFirst(String(Get(row, OrEmpty(colData))), " ")

\* line 358
RowRevenue(row) == NumberOrZero(Get(row, OrEmpty(colFaturamento)))

\* lines 361-371
NewGroup(s, c, rowDateStr) ==
    [source |-> s, campanha |-> c, vendas |-> 0, faturamento |-> QZero,
     minDate |-> rowDateStr, maxDate |-> rowDateStr,
     productsMap |-> <<>>, contents |-> <<>>, key |-> s \o "|" \o c]

\* the position of groups[key] in insertion order, 0 when there is none
GroupIndex(groups, key) ==
    LeastOrZero({i \in 1..Len(groups) : groups[i].key = key})

\* lines 360-372
EnsureGroup(groups, row) ==
    IF GroupIndex(groups, GroupKey(row)) = 0
    THEN Append(groups, NewGroup(GroupSource(row), GroupCampaign(row),
                                 RowDateStr(row)))
    ELSE groups

\* dCurr && dMin && dCurr < dMin, dCurr && dMax && dCurr > dMax
Earlier(dCurr, dMin) == ~dCurr.null /\ ~dMin.null /\ DateLT(dCurr, dMin)
Later(dCurr, dMax) == ~dCurr.null /\ ~dMax.null /\ DateGT(dCurr, dMax)

\* Set.prototype.add
AddToSet(contents, content) ==
    IF content \in Range(contents) THEN contents
    ELSE Append(contents, content)

\* lines 373-387, on the group of the row
Accumulate(g, row, rowDateStr) ==
    [g EXCEPT
        !.vendas = @ + 1,
        !.faturamento = QAdd(@, RowRevenue(row)),
        !.productsMap = Increment(@, OrNA(row, colProduto)),
        !.contents = AddToSet(@, OrNA(row, colContent)),
        !.minDate = IF Earlier(parseBrazilianDate(Str(rowDateStr), tz),
                               parseBrazilianDate(Str(@), tz))
                    THEN rowDateStr ELSE @,
        !.maxDate = IF Later(parseBrazilianDate(Str(rowDateStr), tz),
                             parseBrazilianDate(Str(@), tz))
                    THEN rowDateStr ELSE @]

AccumulateAt(gs, i, row) ==
    [gs EXCEPT ![i] = Accumulate(@, row, RowDateStr(row))]

\* lines 350-388: the groups (in insertion order) after one more row
AddToGroups(groups, row) ==
    AccumulateAt(EnsureGroup(groups, row),
                 GroupIndex(EnsureGroup(groups, row), GroupKey(row)), row)

RECURSIVE GroupsSkippingFirst(_, _)
GroupsSkippingFirst(rows, k) ==
    IF k <= 1 THEN <<>>
    ELSE AddToGroups(GroupsSkippingFirst(rows, k - 1), rows[k])

RECURSIVE GroupsOf(_, _)
GroupsOf(rows, k) ==
    IF k = 0 THEN <<>> ELSE AddToGroups(GroupsOf(rows, k - 1), rows[k])

\* line 390 without the sort
ByInsertionOrder(groups) == groups

\* .sort((a, b) => b.vendas - a.vendas)
ByVendas(groups) ==
    SortDescending(groups, [i \in 1..Len(groups) |-> groups[i].vendas])

\* line 390: Object.values(groups).sort(...); a key holds a "|" and so is
\* never an array index
groupedPerformance(rows) == ByVendas(GroupsOf(rows, Len(rows)))

(***************************************************************************)
(* getTop5 (lines 426-436) and stats (lines 442-450).                      *)
(***************************************************************************)
\* lines 430-432
TopValue(row, colName) ==
    CleanIfCampaign(colName,
        CleanIfSource(colName, trim(StringOrNAIfFalsy(Get(row, colName)))))

RECURSIVE CountsOf(_, _, _)
CountsOf(rows, colName, k) ==
    IF k = 0 THEN <<>>
    ELSE Increment(CountsOf(rows, colName, k - 1), TopValue(rows[k], colName))

\* Array.prototype.slice(0, n)
Slice(q, n) == SubSeq(q, 1, IF Len(q) < n THEN Len(q) ELSE n)

\* .map(([name, value]) => ({ name, value }))
NamedEntries(entries) ==
    [i \in 1..Len(entries) |-> [name |-> entries[i].k, value |-> entries[i].v]]

\* .sort((a, b) => b.value - a.value)
ByValue(named) ==
    SortDescending(named, [i \in 1..Len(named) |-> named[i].value])

getTop5(rows, col) ==
    IF ~Truthy(col) THEN <<>>
    ELSE Slice(ByValue(NamedEntries(
                   ObjectEntries(CountsOf(rows, col.s, Len(rows))))), 5)

RECURSIVE SumRevenue(_, _)
SumRevenue(rows, k) ==
    IF k = 0 THEN QZero
    ELSE QAdd(SumRevenue(rows, k - 1), RowRevenue(rows[k]))

StatsOf(fat, imp, gas) ==
    [fat |-> fat, gas |-> gas, imp |-> imp, luc |-> QSub(QSub(fat, gas), imp),
     roas |-> IF QLess(QZero, gas) THEN QDiv(fat, gas) ELSE QZero]

StatsDividingByAnyInvestment(fat, imp, gas) ==
    [fat |-> fat, gas |-> gas, imp |-> imp, luc |-> QSub(QSub(fat, gas), imp),
     roas |-> IF gas # QZero THEN QDiv(fat, gas) ELSE QZero]

statsDividingByAnyInvestment(rows) ==
    StatsDividingByAnyInvestment(SumRevenue(rows, Len(rows)),
                                 QMul(SumRevenue(rows, Len(rows)), Q(6, 100)),
                                 manualInvestment)

stats(rows) ==
    StatsOf(SumRevenue(rows, Len(rows)),
            QMul(SumRevenue(rows, Len(rows)), Q(6, 100)), manualInvestment)

(***************************************************************************)
(* One row of the cluster table (lines 526-531 and 584-590).               *)
(***************************************************************************)
\* groupInvestments[group.key] || 0
InvestmentOf(key) ==
    IF key \in DOMAIN groupInvestments THEN groupInvestments[key] ELSE QZero

\* lines 528-531 and 586
ClusterCells(group, investment) ==
    [key |-> group.key, investment |-> investment,
     cpa |-> IF group.vendas > 0 THEN QDiv(investment, Q(group.vendas, 1))
             ELSE QZero,
     roi |-> IF QLess(QZero, investment)
             THEN QDiv(group.faturamento, investment) ELSE QZero,
     hasProfit |-> QLess(QZero, investment)
                   /\ QLess(investment, group.faturamento),
     isLoss |-> QLess(QZero, investment)
                /\ ~QLess(investment, group.faturamento),
     \* line 586: "Pendente" is shown when investment === 0, the ROI
     \* figure otherwise
     roiCell |-> IF investment = QZero THEN "Pendente" ELSE "ROI"]

ClusterRow(group) == ClusterCells(group, InvestmentOf(group.key))

(***************************************************************************)
(* One render of the Dashboard: every derived value, from the current      *)
(* props and state.                                                        *)
(***************************************************************************)
ViewOf(rows, groups) ==
    [filteredRows |-> rows,
     groupedPerformance |-> groups,
     clusterRows |-> [i \in 1..Len(groups) |-> ClusterRow(groups[i])],
     top5Campaigns |-> getTop5(rows, colCampaign),
     top5Source |-> getTop5(rows, colSource),
     top5Products |-> getTop5(rows, colProduto),
     stats |-> stats(rows)]

ViewOfRows(rows) == ViewOf(rows, groupedPerformance(rows))

RenderOf == ViewOfRows(filteredRows)

(***************************************************************************)
(* Inputs of the two parsers.                                              *)
(***************************************************************************)
Pending == [pending |-> TRUE]

RECURSIVE StringsUpTo(_, _)
StringsUpTo(alphabet, n) ==
    IF n = 0 THEN {""}
    ELSE LET p == StringsUpTo(alphabet, n - 1)
         IN  p \cup {s \o c : s \in p, c \in alphabet}

CsvAlphabet == {"a", "1", ",", "\"", " ", "\n", "\r"}
TokAlphabet == {"R", "$", "%", ",", ".", "1", "-", " ", "\"", "a"}
ExampleTokens ==
    {"R$ 1.234,56", "12,5%", "42", "1.234", "-1,5", "1.234,56", "R$ 100,00",
     "\"R$ 50,00\"", "01/01/2024", "Promo|v2", "5%%", "R$ R$ 5", "1,2,3%"}

CsvTexts == StringsUpTo(CsvAlphabet, MaxLen)
Tokens == StringsUpTo(TokAlphabet, MaxTokLen) \cup ExampleTokens

\* the (column, value) pairs a filter state accepts
AcceptedPairs(accepted) ==
    UNION {{<<c, accepted[c][k]>> : k \in 1..Len(accepted[c])} :
              c \in DOMAIN accepted}

\* insights === null (line 17)
NoInsight == [null |-> TRUE, about |-> <<>>]

\* the App before any ingestion (lines 15-19)
AppIdle ==
    /\ loading = FALSE
    /\ sheetUrl = ""
    /\ inflight = {}
    /\ done = <<>>
    /\ alerts = 0
    /\ fetches = <<>>
    /\ insights = NoInsight
    /\ analyzing = FALSE
    /\ analyses = {}
    /\ toggled = AcceptedPairs(filters)

\* the dashboard before any table is loaded: no Dashboard is mounted
QueryIdle ==
    /\ data = NullTable
    /\ filters = <<>>
    /\ searchTerm = ""
    /\ manualInvestment = QZero
    /\ groupInvestments = <<>>
    /\ datePreset = "all"
    /\ customStartDate = ""
    /\ customEndDate = ""
    /\ now = 0
    /\ tz = 0
    /\ view = Pending

(***************************************************************************)
(* SpecCSV: parseCSV applied to every text of CsvTexts.                    *)
(***************************************************************************)
InitCSV ==
    /\ csvText \in CsvTexts
    /\ parsed = Pending
    /\ token = ""
    /\ scalar = Pending
    /\ QueryIdle
    /\ AppIdle

ParseCSV ==
    /\ parsed = Pending
    /\ parsed' = parseCSV(csvText)
    /\ UNCHANGED <<csvText, token, scalar, queryVars, view, appVars, toggled>>

NextCSV == ParseCSV

SpecCSV == InitCSV /\ [][NextCSV]_vars

(***************************************************************************)
(* SpecScalar: cleanAndParse applied to every raw field of Tokens.         *)
(***************************************************************************)
InitScalar ==
    /\ token \in Tokens
    /\ scalar = Pending
    /\ csvText = ""
    /\ parsed = Pending
    /\ QueryIdle
    /\ AppIdle

CleanAndParse ==
    /\ scalar = Pending
    /\ scalar' = cleanAndParse(token)
    /\ UNCHANGED <<token, csvText, parsed, queryVars, view, appVars, toggled>>

NextScalar == CleanAndParse

SpecScalar == InitScalar /\ [][NextScalar]_vars

(***************************************************************************)
(* SpecQuery: one render of the Dashboard for every table of Tables and    *)
(* every query of the pools below (the filter state, the search term, the  *)
(* date preset and range, the clock, the investments).                     *)
(***************************************************************************)
MaxRows == 2       \* most data rows of a table

HeaderLine == "id,data,produto,valor,utm_source,utm_campaign,utm_content"

RowLines ==
    {"1,01/01/2024,A,\"R$ 100,00\",fb_ads,Promo|v2,c1",
     "2,02/01/2024 10:30,B,\"R$ 50,00\",google,Promo|v2,c2",
     "3,aa/bb/cc,A,abc,,,",
     "4,2024-01-08,,\"12,5\",0,x,c1",
     "5,abc,B,7,FB_Ads,Promo,",
     "6,2024,A,,kwai,,c2"}

RECURSIVE SeqsUpTo(_, _)
SeqsUpTo(S, n) ==
    IF n = 0 THEN {<<>>}
    ELSE LET p == SeqsUpTo(S, n - 1)
         IN  p \cup {Append(q, x) : q \in p, x \in S}

RECURSIVE JoinLines(_)
JoinLines(lines) ==
    IF Len(lines) = 0 THEN ""
    ELSE IF Len(lines) = 1 THEN lines[1]
    ELSE lines[1] \o "\n" \o JoinLines(Tail(lines))

Tables ==
    {parseCSV(JoinLines(<<HeaderLine>> \o rows)) :
        rows \in SeqsUpTo(RowLines, MaxRows)}

FilterStates ==
    {<<>>,
     [utm_source |-> <<"facebook">>],
     [utm_source |-> <<"facebook", "organic">>, utm_campaign |-> <<"Promo">>],
     [utm_source |-> <<>>, produto |-> <<"A">>],
     [utm_campaign |-> <<"n/a">>]}

SearchTerms == {"", "PROMO", "100"}

DateRanges ==
    {[preset |-> p, start |-> "", end |-> ""] :
        p \in {"all", "today", "7days", "15days", "30days", "custom"}}
    \cup {[preset |-> "custom", start |-> "2024-01-01", end |-> "2024-01-02"]}

\* 2024-01-08 15:00 in UTC-3, and 2024-01-08 00:00 in UTC
Clocks ==
    {[now |-> DaysFromCivil(2024, 1, 8) * MinutesPerDay + 18 * 60,
      tz |-> 0 - 180],
     [now |-> DaysFromCivil(2024, 1, 8) * MinutesPerDay, tz |-> 0]}

ManualInvestments == {Q(0 - 5, 1), QZero, Q(40, 1)}

GroupInvestmentStates ==
    {<<>>,
     ("facebook|Promo" :> Q(40, 1)) @@ ("google|Promo" :> QZero),
     ("facebook|Promo" :> Q(0 - 5, 1)) @@ ("organic|n/a" :> Q(1, 2))}

InitQuery ==
    /\ csvText = ""
    /\ parsed = Pending
    /\ token = ""
    /\ scalar = Pending
    /\ data \in Tables
    /\ filters \in FilterStates
    /\ searchTerm \in SearchTerms
    /\ \E r \in DateRanges :
          /\ datePreset = r.preset
          /\ customStartDate = r.start
          /\ customEndDate = r.end
    /\ \E c \in Clocks : now = c.now /\ tz = c.tz
    /\ manualInvestment \in ManualInvestments
    /\ groupInvestments \in GroupInvestmentStates
    \* every query on the first clock; the second clock with the bare date
    \* ranges; the investments with the bare and the one-filter queries
    /\ \/ /\ tz # 0
          /\ manualInvestment = QZero
          /\ groupInvestments = <<>>
       \/ /\ tz = 0
          /\ filters = <<>>
          /\ searchTerm = ""
          /\ manualInvestment = QZero
          /\ groupInvestments = <<>>
       \/ /\ tz # 0
          /\ searchTerm = ""
          /\ datePreset \in {"all", "7days"}
          /\ filters \in {<<>>, [utm_source |-> <<"facebook">>]}
    /\ view = Pending
    /\ AppIdle

Render ==
    /\ view = Pending
    /\ view' = RenderOf
    /\ UNCHANGED <<parserVars, queryVars, appVars, toggled>>

NextQuery == Render

SpecQuery == InitQuery /\ [][NextQuery]_vars

(***************************************************************************)
(* C1.  Stated on the text itself: a line ends at a line feed (a carriage  *)
(* return before it is white space of the line), and a line is blank when  *)
(* it holds white space only.                                              *)
(***************************************************************************)
\* the positions after which a line of text starts
LineStarts(text) == {0} \cup {i \in 1..Len(text) : Ch(text, i) = "\n"}

\* position k lies on the line that starts after position a
OnLine(text, a, k) ==
    a < k /\ k <= Len(text) /\ \A j \in (a + 1)..k : Ch(text, j) # "\n"

NonBlankStarts(text) ==
    {a \in LineStarts(text) :
        \E k \in 1..Len(text) : OnLine(text, a, k) /\ ~IsSpace(Ch(text, k))}

FirstLineFields(text) ==
    LET a == CHOOSE x \in NonBlankStarts(text) :
                 \A y \in NonBlankStarts(text) : x <= y
    IN  1 + Cardinality({k \in 1..Len(text) :
                            OnLine(text, a, k) /\ Ch(text, k) = ","})

\* C1: parseCSV returns null exactly when the text has no non-blank line;
\* otherwise rows has one entry per non-blank line after the first and
\* headers one entry per comma-separated field of the first non-blank line.
C1_ParseShape ==
    parsed # Pending =>
        LET nb == Cardinality(NonBlankStarts(csvText))
        IN  /\ parsed.null <=> nb = 0
            /\ ~parsed.null =>
                  /\ Len(parsed.rows) = nb - 1
                  /\ Len(parsed.headers) = FirstLineFields(csvText)

C1_Witness ==
    /\ parsed # Pending
    /\ ~parsed.null
    /\ Len(parsed.rows) >= 1
    /\ includes(csvText, "\r\n")

(***************************************************************************)
(* C2.                                                                     *)
(***************************************************************************)
\* the first row, in ingestion order, whose value for header h is not ''
FirstNonEmptyIsNumber(rows, h) ==
    \E i \in 1..Len(rows) :
        /\ rows[i][h] # Str("")
        /\ \A j \in 1..(i - 1) : rows[j][h] = Str("")
        /\ IsNum(rows[i][h])

\* C2: a column is typed numeric if and only if the first row holding a
\* non-empty value for it holds a number.
C2_FirstNonEmptyDecides ==
    (parsed # Pending /\ ~parsed.null) =>
        \A h \in Range(parsed.headers) :
            parsed.types[h] = "number"
                <=> FirstNonEmptyIsNumber(parsed.rows, h)

(***************************************************************************)
(* C9.                                                                     *)
(***************************************************************************)
\* C9: cleanAndParse returns '' for every raw field that is empty or white
\* space only once outer white space and one layer of double quotes are
\* stripped; for every other field it returns a number exactly when the
\* cleaned string is non-empty and converts, and the cleaned string otherwise.
C9_ScalarContract ==
    scalar # Pending =>
        LET bare == StripQuotes(trim(token))
            cleaned == CleanedOf(token)
            num == Number(cleaned)
        IN  IF trim(bare) = "" THEN scalar = Str("")
            ELSE IF cleaned # "" /\ ~num.nan THEN scalar = Num(num.n, num.d)
            ELSE scalar = Str(cleaned)

(***************************************************************************)
(* C10.                                                                    *)
(***************************************************************************)
\* s without any occurrence of sub (one pass, left to right)
RECURSIVE RemoveAll(_, _)
RemoveAll(s, sub) ==
    LET i == indexOf(s, sub)
    IN  IF i = 0 THEN s
        ELSE SubSeq(s, 1, i - 1) \o RemoveAll(SubSeq(s, i + Len(sub), Len(s)), sub)

\* the markers and the white space removed, the separators normalised
ClaimedNormalForm(cleaned) ==
    LET c == RemoveChars(RemoveAll(RemoveAll(cleaned, "R$"), "%"), Spaces)
    IN  IF includes(c, ",") /\ includes(c, ".")
        THEN replaceFirst(RemoveChars(c, {"."}), ",", ".")
        ELSE IF includes(c, ",") THEN replaceFirst(c, ",", ".")
        ELSE c

\* the value of a cleaned string: its number when it has one
ValueOfCleaned(c) ==
    LET num == Number(c)
    IN  IF c # "" /\ ~num.nan THEN Num(num.n, num.d) ELSE Str(c)

OnlyDigitsAndDots(s) ==
    s # "" /\ \A i \in 1..Len(s) : IsDigit(Ch(s, i)) \/ Ch(s, i) = "."

\* C10: for a raw field with a currency marker, a percent marker or the
\* decimal-comma form, the result is the value of the field with the markers
\* and all white space removed and the separators normalised; a field of
\* digits and dots only is converted as it stands.
C10_LocaleNormalization ==
    (scalar # Pending /\ trim(token) # "") =>
        LET cleaned == StripQuotes(trim(token))
        IN  IF includes(cleaned, "R$") \/ includes(cleaned, "%")
               \/ DecimalCommaPattern(cleaned)
            THEN scalar = ValueOfCleaned(ClaimedNormalForm(cleaned))
            ELSE OnlyDigitsAndDots(cleaned) => scalar = ValueOfCleaned(cleaned)

(***************************************************************************)
(* C3 and C4.  A date value parses as a calendar date when the Date        *)
(* Normalizer yields a date that denotes an instant.                       *)
(***************************************************************************)
ParsesAsCalendarDate(v) ==
    LET d == parseBrazilianDate(v, tz) IN ~d.null /\ d.valid

DateRestrictionActive == Truthy(colData) /\ datePreset # "all"

\* the date-range predicate: under an active restriction the row's date
\* parses and lies in the window of the preset
InDateRange(row) ==
    DateRestrictionActive =>
        ParsesAsCalendarDate(Get(row, colData.s)) /\ DateRestriction(row)

\* the categorical predicate: the row's value is accepted by every column
\* whose set of accepted values is not empty
InAcceptedSets(row) ==
    \A col \in {c \in DOMAIN filters : filters[c] # <<>>} :
        \E k \in 1..Len(filters[col]) : filters[col][k] = FilterValue(row, col)

\* the search predicate: the term is empty or some column holds it,
\* letter case apart
HoldsSearchTerm(row) ==
    searchTerm # "" =>
        \E h \in Range(data.headers) :
            includes(toLowerCase(String(Get(row, h))), toLowerCase(searchTerm))

SatisfiesAll(row) ==
    InDateRange(row) /\ InAcceptedSets(row) /\ HoldsSearchTerm(row)

\* C3: the filtered rows are exactly the rows of the table, in their
\* original order, that satisfy the date-range predicate, the categorical
\* predicate and the search predicate together.
C3_FilteredRowsAreTheSatisfyingRows ==
    view # Pending =>
        view.filteredRows = SelectSeq(rowsWithIndex, SatisfiesAll)

\* C4: when a date column is identified and the preset is not 'all', no row
\* whose date value fails to parse as a calendar date is among the filtered
\* rows, whichever the preset.
C4_UnparseableDatesExcluded ==
    (view # Pending /\ DateRestrictionActive) =>
        \A i \in 1..Len(view.filteredRows) :
            ParsesAsCalendarDate(Get(view.filteredRows[i], colData.s))

(***************************************************************************)
(* C5.                                                                     *)
(***************************************************************************)
Names(top) == {top[i].name : i \in 1..Len(top)}

\* C5: the cleaned sources (and the cleaned campaigns) of the filtered rows
\* are the same values in the filter predicate, in the cluster keys and in
\* the top-N ranking (the ranking holding every value while there are at
\* most five of them).
C5_SameCleanedValueEverywhere ==
    (view # Pending /\ Truthy(colSource) /\ Truthy(colCampaign)
        /\ Len(view.filteredRows) <= 5) =>
        LET rows == view.filteredRows
            groups == view.groupedPerformance
        IN  /\ {FilterValue(rows[i], colSource.s) : i \in 1..Len(rows)}
                  = {groups[i].source : i \in 1..Len(groups)}
            /\ {groups[i].source : i \in 1..Len(groups)}
                  = Names(view.top5Source)
            /\ {FilterValue(rows[i], colCampaign.s) : i \in 1..Len(rows)}
                  = {groups[i].campanha : i \in 1..Len(groups)}
            /\ {groups[i].campanha : i \in 1..Len(groups)}
                  = Names(view.top5Campaigns)

(***************************************************************************)
(* C6 and C7.  The revenue of a row, stated on the table: the number its   *)
(* revenue cell holds, 0 when it holds none.                               *)
(***************************************************************************)
RevenueCell(row) ==
    LET v == Get(row, OrEmpty(colFaturamento))
    IN  IF IsNum(v) THEN Q(v.n, v.d) ELSE QZero

\* the sum of the rationals of a sequence
RECURSIVE QSum(_)
QSum(q) == IF q = <<>> THEN QZero ELSE QAdd(Head(q), QSum(Tail(q)))

C7_RollupFormulae ==
    view # Pending =>
        LET rows == view.filteredRows
            revenue == QSum([i \in 1..Len(rows) |-> RevenueCell(rows[i])])
            tax == QDiv(QMul(revenue, Q(6, 1)), Q(100, 1))
        IN  /\ view.stats.fat = revenue
            /\ view.stats.imp = tax
            /\ view.stats.luc = QSub(revenue, QAdd(manualInvestment, tax))
            /\ view.stats.gas = manualInvestment
            /\ view.stats.roas =
                  IF manualInvestment.n > 0
                  THEN QDiv(revenue, manualInvestment) ELSE QZero

\* a negative investment against a revenue that is not 0
C7_Witness ==
    /\ view # Pending
    /\ manualInvestment.n < 0
    /\ view.stats.fat # QZero
    /\ view.stats.roas = QZero

(***************************************************************************)
(* C8.                                                                     *)
(***************************************************************************)
\* C8: a cluster's ROI cell shows revenue / investment only when its
\* investment is > 0 and the pending mark in every other case; its CPA is
\* investment / sale count when the sale count is > 0 and 0 otherwise.
C8_RoiPendingUnlessInvested ==
    view # Pending =>
        \A i \in 1..Len(view.clusterRows) :
            LET c == view.clusterRows[i]
                g == view.groupedPerformance[i]
            IN  /\ (c.roiCell = "Pendente") <=> ~(c.investment.n > 0)
                /\ c.investment.n > 0 =>
                      c.roi = QDiv(g.faturamento, c.investment)
                /\ c.cpa = IF g.vendas > 0
                           THEN QDiv(c.investment, Q(g.vendas, 1)) ELSE QZero

(***************************************************************************)
(* C11 and C12.  The fields of a data line are counted on the line itself: *)
(* a comma lies inside a pair of double quotes when an odd number of       *)
(* double quotes precedes it and a double quote follows it.                *)
(***************************************************************************)
QuotesBefore(line, p) == Cardinality({j \in 1..(p - 1) : Ch(line, j) = "\""})

InsideQuotePair(line, p) ==
    /\ QuotesBefore(line, p) % 2 = 1
    /\ \E j \in (p + 1)..Len(line) : Ch(line, j) = "\""

FieldSeparators(line) ==
    {p \in 1..Len(line) : Ch(line, p) = "," /\ ~InsideQuotePair(line, p)}

\* the text of field k of the line, '' when the line has fewer fields
FieldText(line, k) ==
    IF k > Cardinality(FieldSeparators(line)) + 1 THEN ""
    ELSE SubSeq(line,
                Nth(FieldSeparators(line), k - 1) + 1,
                IF k = Cardinality(FieldSeparators(line)) + 1 THEN Len(line)
                ELSE Nth(FieldSeparators(line), k) - 1)

\* C11: every row of a built table has exactly one entry per header; header
\* i maps to the parsed i-th field of the quote-aware split of the row's
\* line, and to '' when the line has fewer than i + 1 fields.
C11_OneEntryPerHeader ==
    (parsed # Pending /\ ~parsed.null) =>
        \A r \in 1..Len(parsed.rows) :
            /\ Cardinality(DOMAIN parsed.rows[r]) = Len(parsed.headers)
            /\ \A i \in 1..Len(parsed.headers) :
                  parsed.rows[r][parsed.headers[i]] =
                      cleanAndParse(FieldText(LinesOf(csvText)[r + 1], i))

\* C12: the header names of a built table are pairwise distinct.
C12_HeadersAreDistinct ==
    (parsed # Pending /\ ~parsed.null) =>
        \A i, j \in 1..Len(parsed.headers) :
            parsed.headers[i] = parsed.headers[j] => i = j

(***************************************************************************)
(* SpecCluster: one render of the Dashboard for every table of at most     *)
(* MaxClusterRows rows of ClusterLines, whose sources hold a "|", whose    *)
(* products look like integers and whose dates repeat or do not parse.     *)
(***************************************************************************)
MaxClusterRows == 4

ClusterLines ==
    {"1,02/01/2024,7,10,a|b,c,c1",
     "2,01/01/2024,B,10,a,b|c,c1",
     "3,abc,B,5,a|b,c|d,c2",
     "4,01/01/2024 09:00,10,2,x,y,c2"}

ClusterTables ==
    {parseCSV(JoinLines(<<HeaderLine>> \o rows)) :
        rows \in SeqsUpTo(ClusterLines, MaxClusterRows)}

InitCluster ==
    /\ csvText = ""
    /\ parsed = Pending
    /\ token = ""
    /\ scalar = Pending
    /\ data \in ClusterTables
    /\ filters \in {<<>>, [utm_source |-> <<"a", "x">>]}
    /\ searchTerm = ""
    /\ datePreset = "all"
    /\ customStartDate = ""
    /\ customEndDate = ""
    /\ \E c \in Clocks : c.tz # 0 /\ now = c.now /\ tz = c.tz
    /\ manualInvestment = QZero
    /\ groupInvestments = <<>>
    /\ view = Pending
    /\ AppIdle

SpecCluster == InitCluster /\ [][NextQuery]_vars

(***************************************************************************)
(* C13.                                                                    *)
(***************************************************************************)
\* the first of the rows that belongs to the cluster of this key
FirstRowOf(rows, key) ==
    LeastOrZero({r \in 1..Len(rows) : GroupKey(rows[r]) = key})

\* C13: the clusters come in descending sale count, and clusters of equal
\* sale count in the order in which their key was first met among the
\* filtered rows.
C13_ClustersByDescendingSales ==
    view # Pending =>
        \A i, j \in 1..Len(view.groupedPerformance) :
            i < j =>
                LET a == view.groupedPerformance[i]
                    b == view.groupedPerformance[j]
                IN  /\ a.vendas >= b.vendas
                    /\ a.vendas = b.vendas =>
                          FirstRowOf(view.filteredRows, a.key)
                              < FirstRowOf(view.filteredRows, b.key)

\* three clusters: the one met second has the most sales and comes first,
\* the other two tie
C13_Witness ==
    /\ view # Pending
    /\ Len(view.groupedPerformance) = 3
    /\ FirstRowOf(view.filteredRows, view.groupedPerformance[1].key) = 2
    /\ view.groupedPerformance[2].vendas = view.groupedPerformance[3].vendas

(***************************************************************************)
(* C14.                                                                    *)
(***************************************************************************)
\* the rows whose value for the column is this name
RowsNamed(rows, colName, name) ==
    {r \in 1..Len(rows) : TopValue(rows[r], colName) = name}

\* a top list of the column: at most 5 entries, each with the count of its
\* value, in descending count, equal counts in first-seen order
IsTopOf(top, rows, colName) ==
    /\ Len(top) <= 5
    /\ \A i \in 1..Len(top) :
          top[i].value = Cardinality(RowsNamed(rows, colName, top[i].name))
    /\ \A i, j \in 1..Len(top) :
          i < j =>
              /\ top[i].value >= top[j].value
              /\ top[i].value = top[j].value =>
                    LeastOrZero(RowsNamed(rows, colName, top[i].name))
                        < LeastOrZero(RowsNamed(rows, colName, top[j].name))

\* C14: getTop5 returns at most 5 entries in descending count, each count
\* the number of filtered rows holding that value, equal counts in the order
\* the values were first seen, also for values that look like integers.
C14_TopFiveInFirstSeenOrder ==
    view # Pending =>
        /\ Truthy(colProduto) =>
              IsTopOf(view.top5Products, view.filteredRows, colProduto.s)
        /\ Truthy(colSource) =>
              IsTopOf(view.top5Source, view.filteredRows, colSource.s)
        /\ Truthy(colCampaign) =>
              IsTopOf(view.top5Campaigns, view.filteredRows, colCampaign.s)

(***************************************************************************)
(* SpecApp: the App and its Dashboard as one state machine (src/App.tsx    *)
(* 14-108, 131, 286-301, 500, 581, 641).  An ingestion is started by       *)
(* handleFileUpload or loadFromUrl and settles later, in any order with    *)
(* the other events.  The Dashboard is mounted while data is not null; its *)
(* state is created with the initial values when it mounts and discarded   *)
(* when it unmounts, and kept when the data prop changes under it.         *)
(***************************************************************************)
MaxIngestions == 2     \* most ingestions started in one behaviour

AppHeaderLine == "id,data,utm_source,utm_campaign"

\* the contents of the files and of the responses
AppTexts ==
    {" \n",
     JoinLines(<<AppHeaderLine, "1,01/01/2024,fb,Promo">>),
     JoinLines(<<AppHeaderLine, "2,08/01/2024,kwai,x">>)}

SheetUrls == {"", "https://docs/d/1/edit#gid=0"}
PresetButtons == {"all", "7days"}
InvestmentInputs == {Q(40, 1)}

Started == Len(done) + Cardinality(inflight)

Ingestion(kind, text) == [id |-> Started + 1, kind |-> kind, text |-> text]
Settled(kind, failed, text) == [kind |-> kind, failed |-> failed, text |-> text]

\* useState initial values (lines 217-226)
DashboardUnmounted ==
    /\ filters' = <<>>
    /\ searchTerm' = ""
    /\ manualInvestment' = QZero
    /\ groupInvestments' = <<>>
    /\ datePreset' = "all"
    /\ customStartDate' = ""
    /\ customEndDate' = ""
    /\ toggled' = {}

dashboardVars == <<filters, searchTerm, manualInvestment, groupInvestments,
                   datePreset, customStartDate, customEndDate>>

InitApp ==
    /\ csvText = ""
    /\ parsed = Pending
    /\ token = ""
    /\ scalar = Pending
    /\ data = NullTable
    /\ filters = <<>>
    /\ searchTerm = ""
    /\ manualInvestment = QZero
    /\ groupInvestments = <<>>
    /\ datePreset = "all"
    /\ customStartDate = ""
    /\ customEndDate = ""
    /\ \E c \in Clocks : c.tz # 0 /\ now = c.now /\ tz = c.tz
    /\ view = Pending
    /\ AppIdle

\* line 149: the URL input of the landing page
SetSheetUrl(u) ==
    /\ data.null
    /\ sheetUrl' = u
    /\ UNCHANGED <<aiVars, parserVars, queryVars, view, loading, inflight,
                   done, alerts, fetches, toggled>>

\* handleFileUpload (lines 68-81) up to reader.readAsText(file)
HandleFileUpload(text) ==
    /\ data.null
    /\ Started < MaxIngestions
    /\ loading' = TRUE
    /\ inflight' = inflight \cup {Ingestion("file", text)}
    /\ UNCHANGED <<aiVars, parserVars, queryVars, view, sheetUrl, done,
                   alerts, fetches, toggled>>

\* if (parsed) setData(parsed)
SetDataIfParsed(table) == data' = IF table.null THEN data ELSE table

\* reader.onload (lines 74-79)
ReaderOnLoad(x) ==
    /\ x.kind = "file"
    /\ SetDataIfParsed(parseCSV(x.text))
    /\ loading' = FALSE
    /\ inflight' = inflight \ {x}
    /\ done' = Append(done, Settled("file", FALSE, x.text))
    /\ UNCHANGED <<aiVars, parserVars, dashboardVars, now, tz, view, sheetUrl,
                   alerts, fetches, toggled>>

\* the read fails: no onerror handler is registered, nothing runs
ReaderOnError(x) ==
    /\ x.kind = "file"
    /\ inflight' = inflight \ {x}
    /\ done' = Append(done, Settled("file", TRUE, ""))
    /\ UNCHANGED <<aiVars, parserVars, queryVars, view, loading, sheetUrl,
                   alerts, fetches, toggled>>

\* lines 87-90
TargetUrl(url) ==
    IF includes(url, "/edit")
    THEN UpTo(url, indexOf(url, "/edit")) \o "/export?format=csv"
    ELSE url

\* loadFromUrl (lines 83-91) up to the await of fetch; the button is
\* disabled while loading or without a URL (line 153)
LoadFromUrl ==
    /\ data.null
    /\ ~loading
    /\ sheetUrl # ""
    /\ Started < MaxIngestions
    /\ loading' = TRUE
    /\ fetches' = Append(fetches, TargetUrl(sheetUrl))
    /\ inflight' = inflight \cup {Ingestion("url", "")}
    /\ UNCHANGED <<aiVars, parserVars, queryVars, view, sheetUrl, done,
                   alerts, toggled>>

\* lines 92-94 and 97-99: the response arrives with this text
FetchResolved(x, text) ==
    /\ x.kind = "url"
    /\ SetDataIfParsed(parseCSV(text))
    /\ loading' = FALSE
    /\ inflight' = inflight \ {x}
    /\ done' = Append(done, Settled("url", FALSE, text))
    /\ UNCHANGED <<aiVars, parserVars, dashboardVars, now, tz, view, sheetUrl,
                   alerts, fetches, toggled>>

\* lines 95-99 with a second fetch in the catch block
FetchRejectedRetrying(x) ==
    /\ x.kind = "url"
    /\ alerts' = alerts + 1
    /\ fetches' = Append(fetches, TargetUrl(sheetUrl))
    /\ loading' = FALSE
    /\ inflight' = inflight \ {x}
    /\ done' = Append(done, Settled("url", TRUE, ""))
    /\ UNCHANGED <<aiVars, parserVars, queryVars, view, sheetUrl, toggled>>

\* lines 95-99: fetch or response.text() rejects
FetchRejected(x) ==
    /\ x.kind = "url"
    /\ alerts' = alerts + 1
    /\ loading' = FALSE
    /\ inflight' = inflight \ {x}
    /\ done' = Append(done, Settled("url", TRUE, ""))
    /\ UNCHANGED <<aiVars, parserVars, queryVars, view, sheetUrl, fetches,
                   toggled>>

\* line 131: setData(null); setInsights(null); the Dashboard unmounts
Reset ==
    /\ data' = NullTable
    /\ DashboardUnmounted
    /\ insights' = NoInsight
    /\ UNCHANGED <<parserVars, now, tz, view, loading, sheetUrl, inflight,
                   done, alerts, fetches, analyzing, analyses>>

\* toggleFilter with a list that only grows
ToggledByAppending(current, value) == Append(current, value)

\* current.includes(value) ? current.filter(v => v !== value)
\*                         : [...current, value]
Toggled(current, value) ==
    IF value \in Range(current)
    THEN SelectSeq(current, LAMBDA v : v # value)
    ELSE Append(current, value)

\* prev[column] || []
AcceptedOf(prev, column) ==
    IF column \in DOMAIN prev THEN prev[column] ELSE <<>>

\* lines 288-292: { ...prev, [column]: updated }
ToggleIn(prev, column, value) ==
    (column :> Toggled(AcceptedOf(prev, column), value)) @@ prev

\* toggleFilter (lines 286-294): the next filters
toggleFilter(column, value) == ToggleIn(filters, column, value)

\* the pairs toggled an odd number of times, after one more toggle
ToggledOnceMore(pair) ==
    IF pair \in toggled THEN toggled \ {pair} ELSE toggled \cup {pair}

\* a click on a value of a filter list (lines 509, 513, 655)
ToggleFilter(column, value) ==
    /\ ~data.null
    /\ filters' = toggleFilter(column, value)
    /\ toggled' = ToggledOnceMore(<<column, value>>)
    /\ UNCHANGED <<parserVars, data, searchTerm, manualInvestment,
                   groupInvestments, datePreset, customStartDate,
                   customEndDate, now, tz, view, appVars>>

\* clearAllFilters and the per-cluster investments with it
ClearAllFiltersAndInvestments ==
    /\ ~data.null
    /\ filters' = <<>>
    /\ searchTerm' = ""
    /\ datePreset' = "all"
    /\ groupInvestments' = <<>>
    /\ toggled' = {}
    /\ UNCHANGED <<parserVars, data, manualInvestment, customStartDate,
                   customEndDate, now, tz, view, appVars>>

\* clearAllFilters (lines 296-301)
ClearAllFilters ==
    /\ ~data.null
    /\ filters' = <<>>
    /\ searchTerm' = ""
    /\ datePreset' = "all"
    /\ toggled' = {}
    /\ UNCHANGED <<parserVars, data, manualInvestment, groupInvestments,
                   customStartDate, customEndDate, now, tz, view, appVars>>

\* line 500
SetDatePreset(p) ==
    /\ ~data.null
    /\ datePreset' = p
    /\ UNCHANGED <<parserVars, data, filters, searchTerm, manualInvestment,
                   groupInvestments, customStartDate, customEndDate, now, tz,
                   view, appVars, toggled>>

\* line 581: ({ ...prev, [group.key]: Number(e.target.value) })
SetGroupInvestment(key, value) ==
    /\ ~data.null
    /\ groupInvestments' = (key :> value) @@ groupInvestments
    /\ UNCHANGED <<parserVars, data, filters, searchTerm, manualInvestment,
                   datePreset, customStartDate, customEndDate, now, tz, view,
                   appVars, toggled>>

\* line 641
SetManualInvestment(value) ==
    /\ ~data.null
    /\ manualInvestment' = value
    /\ UNCHANGED <<parserVars, data, filters, searchTerm, groupInvestments,
                   datePreset, customStartDate, customEndDate, now, tz, view,
                   appVars, toggled>>

\* the keys of the cluster rows on screen
ClusterKeys ==
    {groupedPerformance(filteredRows)[i].key :
        i \in 1..Len(groupedPerformance(filteredRows))}

NextApp ==
    \/ \E u \in SheetUrls : SetSheetUrl(u)
    \/ \E t \in AppTexts : HandleFileUpload(t)
    \/ \E x \in inflight : ReaderOnLoad(x)
    \/ \E x \in inflight : ReaderOnError(x)
    \/ LoadFromUrl
    \/ \E x \in inflight : \E t \in AppTexts : FetchResolved(x, t)
    \/ \E x \in inflight : FetchRejected(x)
    \/ Reset
    \/ \E c \in categoricalFilterCols :
          \E v \in uniqueValuesMap[c] : ToggleFilter(c, v)
    \/ ClearAllFilters
    \/ \E p \in PresetButtons : SetDatePreset(p)
    \/ \E k \in ClusterKeys : \E v \in InvestmentInputs :
          SetGroupInvestment(k, v)
    \/ \E v \in InvestmentInputs : SetManualInvestment(v)

SpecApp == InitApp /\ [][NextApp]_vars

(***************************************************************************)
(* C15.                                                                    *)
(***************************************************************************)
\* the step edits the investment of exactly one cluster and nothing else of
\* the query
EditsOneInvestment ==
    /\ \E k \in DOMAIN groupInvestments' :
          groupInvestments' = (k :> groupInvestments'[k]) @@ groupInvestments
    /\ UNCHANGED <<data, filters, searchTerm, datePreset>>

\* C15: the per-cluster investments change only when one cluster's input is
\* edited; a step that changes the filters, the search term or the date
\* preset of a mounted dashboard leaves the whole mapping unchanged, and the
\* mapping is empty once the table is reset.
C15_InvestmentsSurviveFilterChanges ==
    [][/\ (groupInvestments' # groupInvestments /\ ~data'.null)
              => EditsOneInvestment
       /\ (~data'.null /\ (\/ filters' # filters
                           \/ searchTerm' # searchTerm
                           \/ datePreset' # datePreset))
              => groupInvestments' = groupInvestments
       /\ data'.null => groupInvestments' = <<>>]_vars

\* an investment is held for a cluster that the filters and the date preset
\* have removed from the cluster table
C15_Witness ==
    /\ ~data.null
    /\ filters # <<>>
    /\ datePreset # "all"
    /\ \E k \in DOMAIN groupInvestments : k \notin ClusterKeys

(***************************************************************************)
(* C16.                                                                    *)
(***************************************************************************)
\* the step settles an ingestion
SettlesOne == Len(done') = Len(done) + 1

\* C16: an ingestion that settles without a table (its text has no
\* non-blank line, or the URL fetch failed) leaves the table as it was and
\* loading false; a failed URL fetch raises exactly one alert and starts no
\* fetch.
C16_NoTableIsANoOp ==
    [][SettlesOne =>
          LET e == done'[Len(done')]
          IN  /\ (e.kind = "url" /\ e.failed) =>
                    /\ data' = data
                    /\ loading' = FALSE
                    /\ alerts' = alerts + 1
                    /\ fetches' = fetches
              /\ (~e.failed /\ NonBlankStarts(e.text) = {}) =>
                    /\ data' = data
                    /\ loading' = FALSE
                    /\ alerts' = alerts
                    /\ fetches' = fetches]_vars

\* a URL fetch has failed while a table from a file was on screen
C16_Witness ==
    /\ Len(done) = 2
    /\ done[2].kind = "url"
    /\ done[2].failed
    /\ ~data.null
    /\ ~loading
    /\ alerts = 1
    /\ Len(fetches) = 1

(***************************************************************************)
(* C20.                                                                    *)
(***************************************************************************)
\* C20: the loading flag is true exactly while an ingestion is in flight.
C20_LoadingIffInFlight == loading <=> inflight # {}

(***************************************************************************)
(* C17.                                                                    *)
(***************************************************************************)
\* the rows of the cluster whose date string parses as a calendar date
DatedRowsOf(rows, key) ==
    {r \in 1..Len(rows) :
        /\ GroupKey(rows[r]) = key
        /\ ParsesAsCalendarDate(Str(RowDateStr(rows[r])))}

RowInstant(row) == parseBrazilianDate(Str(RowDateStr(row)), tz).t

\* C17: the earliest (latest) date string a cluster stores is the date
\* string of one of its rows whose parsed date is the minimum (maximum) over
\* the rows of the cluster with a parseable date, whatever the row order.
C17_ClusterDateBounds ==
    view # Pending =>
        \A i \in 1..Len(view.groupedPerformance) :
            LET g == view.groupedPerformance[i]
                rows == view.filteredRows
                dated == DatedRowsOf(rows, g.key)
            IN  dated # {} =>
                    /\ \E r \in dated :
                          /\ g.minDate = RowDateStr(rows[r])
                          /\ \A q \in dated :
                                RowInstant(rows[r]) <= RowInstant(rows[q])
                    /\ \E r \in dated :
                          /\ g.maxDate = RowDateStr(rows[r])
                          /\ \A q \in dated :
                                RowInstant(rows[r]) >= RowInstant(rows[q])

(***************************************************************************)
(* C19.                                                                    *)
(***************************************************************************)
\* the rows whose cleaned source and cleaned campaign are these
RowsOfPair(rows, s, c) ==
    {r \in 1..Len(rows) : GroupSource(rows[r]) = s /\ GroupCampaign(rows[r]) = c}

\* C19: two filtered rows fall into the same cluster exactly when they have
\* the same cleaned source and the same cleaned campaign: every cluster
\* counts the rows of its own (source, campaign) pair and no others, no two
\* clusters share a pair, and no cleaned campaign holds a '|'.
C19_ClusterKeyIsInjective ==
    view # Pending =>
        LET rows == view.filteredRows
            groups == view.groupedPerformance
        IN  /\ \A r \in 1..Len(rows) : ~includes(GroupCampaign(rows[r]), "|")
            /\ \A r \in 1..Len(rows) :
                  \E i \in 1..Len(groups) :
                      /\ groups[i].source = GroupSource(rows[r])
                      /\ groups[i].campanha = GroupCampaign(rows[r])
            /\ \A i \in 1..Len(groups) :
                  groups[i].vendas =
                      Cardinality(RowsOfPair(rows, groups[i].source,
                                             groups[i].campanha))
            /\ \A i, j \in 1..Len(groups) :
                  (/\ groups[i].source = groups[j].source
                   /\ groups[i].campanha = groups[j].campanha) => i = j

\* a raw source with a '|' next to a raw campaign with a '|': the pairs
\* ('a|b', 'c') and ('a', 'b') are both on screen
C19_Witness ==
    /\ view # Pending
    /\ \E i, j \in 1..Len(view.groupedPerformance) :
          /\ view.groupedPerformance[i].key = "a|b|c"
          /\ view.groupedPerformance[i].source = "a|b"
          /\ view.groupedPerformance[j].key = "a|b"
          /\ view.groupedPerformance[j].source = "a"

(***************************************************************************)
(* SpecLayout: one render of the Dashboard for tables whose header lines   *)
(* place the date column at, before and after the positional index, or     *)
(* leave it out.                                                           *)
(***************************************************************************)
MaxLayoutRows == 2

LayoutHeaderLines ==
    {"x,y,data", "data", "a", "Data Venda,b", "id,when", "id,data,produto"}

LayoutLines == {"01/01/2024,08/01/2024,abc", "abc,01/01/2024,08/01/2024"}

LayoutTables ==
    {parseCSV(JoinLines(<<h>> \o rows)) :
        h \in LayoutHeaderLines, rows \in SeqsUpTo(LayoutLines, MaxLayoutRows)}

InitLayout ==
    /\ csvText = ""
    /\ parsed = Pending
    /\ token = ""
    /\ scalar = Pending
    /\ data \in LayoutTables
    /\ filters = <<>>
    /\ searchTerm = ""
    /\ \E r \in DateRanges :
          /\ datePreset = r.preset
          /\ customStartDate = r.start
          /\ customEndDate = r.end
    /\ \E c \in Clocks : c.tz # 0 /\ now = c.now /\ tz = c.tz
    /\ manualInvestment = QZero
    /\ groupInvestments = <<>>
    /\ view = Pending
    /\ AppIdle

SpecLayout == InitLayout /\ [][NextQuery]_vars

(***************************************************************************)
(* C18.                                                                    *)
(***************************************************************************)
\* the positions of the headers that hold one of the synonyms, letter case
\* apart
SynonymPositions(keys) ==
    {i \in 1..Len(data.headers) :
        \E k \in 1..Len(keys) :
            includes(toLowerCase(data.headers[i]), toLowerCase(keys[k]))}

\* the synonym lookup first, the positional index only without a match
ResolvedByNameFirst(keys, indexHint) ==
    IF SynonymPositions(keys) # {}
    THEN Str(data.headers[LeastOrZero(SynonymPositions(keys))])
    ELSE IF indexHint + 1 <= Len(data.headers)
         THEN Str(data.headers[indexHint + 1])
         ELSE Undef

\* C18: every logical field is the first header that matches one of its
\* synonyms, the header at its positional index when none matches, and
\* unresolved otherwise; with the date field unresolved the date preset
\* removes no row.
C18_NameLookupBeforePosition ==
    view # Pending =>
        /\ colData = ResolvedByNameFirst(<<"data venda", "data">>, 1)
        /\ colProduto = ResolvedByNameFirst(<<"produto">>, 8)
        /\ colFaturamento
              = ResolvedByNameFirst(<<"valor da venda", "valor">>, 12)
        /\ colSource = ResolvedByNameFirst(<<"utm_source", "source">>, 29)
        /\ colCampaign
              = ResolvedByNameFirst(<<"utm_campaign", "campanha">>, 31)
        /\ colContent
              = ResolvedByNameFirst(<<"utm_content", "conteúdo">>, 33)
        /\ colData = Undef => view.filteredRows = rowsWithIndex

(***************************************************************************)
(* C21.                                                                    *)
(***************************************************************************)
\* every accepted value of the filter state is a selectable value of the
\* current table for its column
AcceptedValuesAreSelectable ==
    ~data.null =>
        \A col \in DOMAIN filters :
            \A k \in 1..Len(filters[col]) :
                /\ col \in categoricalFilterCols
                /\ filters[col][k] \in uniqueValuesMap[col]

\* a different table becomes the current table
TableReplaced == ~data'.null /\ data' # data

\* C21: every accepted value of the filter state belongs to the selectable
\* values of the current table for that column, and the filter state and
\* the per-cluster investments are empty when a different table becomes the
\* current table.
C21_FiltersBelongToTheCurrentTable ==
    /\ []AcceptedValuesAreSelectable
    /\ [][TableReplaced => (filters' = <<>> /\ groupInvestments' = <<>>)]_vars

(***************************************************************************)
(* SpecInsights: the App with its AI call (src/App.tsx 102-108, 123-131):  *)
(* the ingestions and reset of SpecApp together with generateAIInsights    *)
(* and the settling of its call, without the operations of the Dashboard.  *)
(* analyzeDataWithGemini is an external collaborator that gets the table   *)
(* and yields text or fails.                                               *)
(***************************************************************************)
InsightAbout(table) == [null |-> FALSE, about |-> table]

\* generateAIInsights (lines 102-104) up to the await; the button is shown
\* with a table and disabled while analyzing (lines 123-126)
GenerateAIInsights ==
    /\ ~data.null
    /\ ~analyzing
    /\ analyzing' = TRUE
    /\ analyses' = analyses \cup {data}
    /\ UNCHANGED <<parserVars, queryVars, view, loading, sheetUrl, inflight,
                   done, alerts, fetches, insights, toggled>>

\* lines 105-106: the call yields text
AiResolved(table) ==
    /\ insights' = InsightAbout(table)
    /\ analyzing' = FALSE
    /\ analyses' = analyses \ {table}
    /\ UNCHANGED <<parserVars, queryVars, view, loading, sheetUrl, inflight,
                   done, alerts, fetches, toggled>>

\* line 104: the call fails and the await throws; nothing after it runs
AiRejected(table) ==
    /\ analyses' = analyses \ {table}
    /\ UNCHANGED <<parserVars, queryVars, view, loading, sheetUrl, inflight,
                   done, alerts, fetches, insights, analyzing, toggled>>

NextInsights ==
    \/ \E u \in SheetUrls : SetSheetUrl(u)
    \/ \E t \in AppTexts : HandleFileUpload(t)
    \/ \E x \in inflight : ReaderOnLoad(x)
    \/ \E x \in inflight : ReaderOnError(x)
    \/ LoadFromUrl
    \/ \E x \in inflight : \E t \in AppTexts : FetchResolved(x, t)
    \/ \E x \in inflight : FetchRejected(x)
    \/ Reset
    \/ GenerateAIInsights
    \/ \E t \in analyses : AiResolved(t)
    \/ \E t \in analyses : AiRejected(t)

SpecInsights == InitApp /\ [][NextInsights]_vars

(***************************************************************************)
(* C22.                                                                    *)
(***************************************************************************)
\* C22: an insight that is held was produced from the table that is
\* currently loaded (none is held without a table), and analyzing is false
\* once no AI call is pending.
C22_InsightIsAboutTheCurrentTable ==
    /\ ~insights.null => (~data.null /\ insights.about = data)
    /\ analyses = {} => ~analyzing

(***************************************************************************)
(* SpecFilters: a mounted Dashboard under every sequence of toggleFilter   *)
(* and clearAllFilters, for tables whose filter columns offer one or two   *)
(* values each.                                                            *)
(***************************************************************************)
FilterTables ==
    {parseCSV(JoinLines(<<HeaderLine>> \o rows)) :
        rows \in {<<"1,01/01/2024,A,\"R$ 100,00\",fb_ads,Promo|v2,c1",
                    "2,02/01/2024 10:30,B,\"R$ 50,00\",google,Promo|v2,c2">>,
                  <<"1,01/01/2024,A,\"R$ 100,00\",fb_ads,Promo|v2,c1",
                    "5,abc,B,7,FB_Ads,Promo,">>}}

InitFilters ==
    /\ csvText = ""
    /\ parsed = Pending
    /\ token = ""
    /\ scalar = Pending
    /\ data \in FilterTables
    /\ filters = <<>>
    /\ searchTerm = ""
    /\ datePreset \in {"all", "7days"}
    /\ customStartDate = ""
    /\ customEndDate = ""
    /\ \E c \in Clocks : c.tz # 0 /\ now = c.now /\ tz = c.tz
    /\ manualInvestment = QZero
    /\ groupInvestments = <<>>
    /\ view = Pending
    /\ AppIdle

NextFilters ==
    \/ \E c \in categoricalFilterCols :
          \E v \in uniqueValuesMap[c] : ToggleFilter(c, v)
    \/ ClearAllFilters

SpecFilters == InitFilters /\ [][NextFilters]_vars

(***************************************************************************)
(* C23.                                                                    *)
(***************************************************************************)
\* the filtered rows the dashboard would show under this filter state
RowsUnder(accepted) ==
    SelectSeq(rowsWithIndex,
              LAMBDA row : /\ DateRestriction(row)
                           /\ MatchesIn(accepted, row)
                           /\ matchesSearch(row))

\* the filter state without this column's key
WithoutColumn(accepted, col) ==
    [c \in DOMAIN accepted \ {col} |-> accepted[c]]

\* C23: the accepted-value list of each column has no duplicates and holds
\* a value exactly when it was toggled an odd number of times since the last
\* clearAllFilters; toggling one (column, value) twice in a row leaves the
\* filtered rows unchanged; a column whose values were all toggled off
\* imposes no restriction.
C23_ToggleIsAnInvolution ==
    ~data.null =>
        /\ \A col \in DOMAIN filters :
              \A i, j \in 1..Len(filters[col]) :
                  filters[col][i] = filters[col][j] => i = j
        /\ AcceptedPairs(filters) = toggled
        /\ \A col \in categoricalFilterCols :
              \A v \in uniqueValuesMap[col] :
                  RowsUnder(ToggleIn(ToggleIn(filters, col, v), col, v))
                      = filteredRows
        /\ \A col \in DOMAIN filters :
              filters[col] = <<>> =>
                  RowsUnder(WithoutColumn(filters, col)) = filteredRows

\* one column holds two values in the order of the clicks, another had its
\* only value toggled on and off again, and the filters remove a row
C23_Witness ==
    /\ ~data.null
    /\ "utm_source" \in DOMAIN filters
    /\ filters["utm_source"] = <<"google", "facebook">>
    /\ "produto" \in DOMAIN filters
    /\ filters["produto"] = <<>>
    /\ "utm_content" \in DOMAIN filters
    /\ filters["utm_content"] = <<"c2">>
    /\ Len(filteredRows) < Len(rowsWithIndex)

=============================================================================
